---- MODULE Spec2Model ----
(***************************************************************************)
(* Model of md_to_mobile_html.py: the batch conversion of the Markdown     *)
(* files of a directory into HTML pages plus an index page.                *)
(*                                                                         *)
(* Texts, file names and pages are sequences of characters.  A sequence    *)
(* element is either one character ("#", " ", "<", ...) or an atom that    *)
(* stands for a fixed literal run of the program text (a piece of          *)
(* HTML_TEMPLATE, "<li><a href=\"", ...); atoms are never produced from    *)
(* document data.                                                          *)
(***************************************************************************)
EXTENDS Integers, Sequences, FiniteSets, TLC

VARIABLES
    markdown,     \* _markdown is not None (capability resolved at import)
    source,       \* SOURCE_DIR: entry name -> [kind, text]
    docsExists,   \* OUTPUT_DIR exists
    docs,         \* OUTPUT_DIR: file name -> content
    pc,           \* position of the process
    md_files,     \* main: the discovered list
    idx,          \* main: position of the for loop over md_files
    status,       \* exit status of the last run ("none" while running)
    failure,      \* the uncaught exception of the run, or NoFailure
    log,          \* the writes of the current run, in order
    runs,         \* number of runs started
    edits,        \* number of edits of SOURCE_DIR between runs
    source0,      \* SOURCE_DIR at the start of the current run
    docs0,        \* OUTPUT_DIR at the start of the current run
    docsExists0,  \* docsExists at the start of the current run
    prev,         \* outcome of the previous run
    kept,         \* pages of removed documents, as they were at removal
    text,         \* argument of the function under study
    dflt,         \* second argument (guess_title's default)
    out           \* its result

vars == <<markdown, source, docsExists, docs, pc, md_files, idx, status,
          failure, log, runs, edits, source0, docs0, docsExists0, prev,
          kept, text, dflt, out>>

fsVars == <<markdown, source, docsExists, docs, md_files, idx, status,
            failure, log, runs, edits, source0, docs0, docsExists0, prev,
            kept>>

(***************************************************************************)
(* Bounds                                                                  *)
(***************************************************************************)
MaxTitleLen == 4
MaxEscLen == 3
MaxRuns == 2
MaxEdits == 1

(***************************************************************************)
(* Sequences of characters                                                 *)
(***************************************************************************)
SeqsUpTo(S, n) == UNION {[1..k -> S] : k \in 0..n}

Range(s) == {s[k] : k \in 1..Len(s)}

StartsWith(s, p) == Len(s) >= Len(p) /\ SubSeq(s, 1, Len(p)) = p

EndsWith(s, p) ==
    Len(s) >= Len(p) /\ SubSeq(s, Len(s) - Len(p) + 1, Len(s)) = p

\* str.strip() / str.lstrip(chars): Python's whitespace, as far as it
\* occurs in the texts of the model.
Whitespace == {" ", "\n"}

RECURSIVE LStrip(_, _)
LStrip(s, chars) ==
    IF s # <<>> /\ Head(s) \in chars THEN LStrip(Tail(s), chars) ELSE s

RECURSIVE RStrip(_, _)
RStrip(s, chars) ==
    IF s # <<>> /\ s[Len(s)] \in chars
    THEN RStrip(SubSeq(s, 1, Len(s) - 1), chars) ELSE s

Strip(s) == RStrip(LStrip(s, Whitespace), Whitespace)

\* position of the first occurrence of c in s, 0 if none
RECURSIVE FindFrom(_, _, _)
FindFrom(s, c, k) ==
    IF k > Len(s) THEN 0 ELSE IF s[k] = c THEN k ELSE FindFrom(s, c, k + 1)

\* str.splitlines(): no last empty line after a final line break
RECURSIVE splitlines(_)
splitlines(s) ==
    IF s = <<>> THEN <<>>
    ELSE LET k == FindFrom(s, "\n", 1)
         IN  IF k = 0 THEN <<s>>
             ELSE <<SubSeq(s, 1, k - 1)>> \o splitlines(SubSeq(s, k + 1, Len(s)))

(***************************************************************************)
(* guess_title                                                             *)
(***************************************************************************)
\* a heading line without its marker "# " and the surrounding whitespace
HeadingTextMarkerOnly(stripped) == Strip(SubSeq(stripped, 3, Len(stripped)))

\* stripped.lstrip("# ").strip(): lstrip removes every leading character
\* that is in the set {"#", " "}
HeadingText(stripped) == Strip(LStrip(stripped, {"#", " "}))

RECURSIVE GuessTitleLines(_, _)
GuessTitleLines(lines, default) ==
    IF lines = <<>> THEN default
    ELSE LET stripped == Strip(Head(lines))
         IN  IF StartsWith(stripped, <<"#", " ">>)
             THEN (IF HeadingText(stripped) # <<>>
                   THEN HeadingText(stripped) ELSE default)
             ELSE GuessTitleLines(Tail(lines), default)

guess_title(t, default) == GuessTitleLines(splitlines(t), default)

(***************************************************************************)
(* html.escape and html.unescape                                           *)
(***************************************************************************)
RECURSIVE Replace(_, _, _)
Replace(s, c, r) ==
    IF s = <<>> THEN <<>>
    ELSE (IF Head(s) = c THEN r ELSE <<Head(s)>>) \o Replace(Tail(s), c, r)

AMP == <<"&", "a", "m", "p", ";">>
LT == <<"&", "l", "t", ";">>
GT == <<"&", "g", "t", ";">>
QUOT == <<"&", "q", "u", "o", "t", ";">>
APOS == <<"&", "#", "x", "2", "7", ";">>

\* a faulty escape: "&" is replaced last, after the other entities
\* have been introduced
EscapeAmpLast(s) ==
    Replace(Replace(Replace(Replace(Replace(s, "<", LT), ">", GT),
                            "\"", QUOT), "'", APOS), "&", AMP)

\* html.escape(s, quote=True): "&" first, then "<", ">", '"', "'"
Escape(s) ==
    Replace(Replace(Replace(Replace(Replace(s, "&", AMP), "<", LT), ">", GT),
                    "\"", QUOT), "'", APOS)

\* html.entities.html5, restricted to the names that can be written with
\* the letters of the five entities html.escape produces
Html5Table ==
    {
     <<<<"a", "m", "a", "l", "g", ";">>, "U+2A3F">>,
     <<<<"a", "m", "p">>, "&">>,
     <<<<"a", "m", "p", ";">>, "&">>,
     <<<<"a", "p", ";">>, "U+2248">>,
     <<<<"a", "u", "m", "l">>, "U+00E4">>,
     <<<<"a", "u", "m", "l", ";">>, "U+00E4">>,
     <<<<"g", "a", "m", "m", "a", ";">>, "U+03B3">>,
     <<<<"g", "a", "p", ";">>, "U+2A86">>,
     <<<<"g", "g", ";">>, "U+226B">>,
     <<<<"g", "g", "g", ";">>, "U+22D9">>,
     <<<<"g", "l", ";">>, "U+2277">>,
     <<<<"g", "l", "a", ";">>, "U+2AA5">>,
     <<<<"g", "t">>, ">">>,
     <<<<"g", "t", ";">>, ">">>,
     <<<<"l", "a", "p", ";">>, "U+2A85">>,
     <<<<"l", "a", "q", "u", "o">>, "U+00AB">>,
     <<<<"l", "a", "q", "u", "o", ";">>, "U+00AB">>,
     <<<<"l", "a", "t", ";">>, "U+2AAB">>,
     <<<<"l", "g", ";">>, "U+2276">>,
     <<<<"l", "l", ";">>, "U+226A">>,
     <<<<"l", "t">>, "<">>,
     <<<<"l", "t", ";">>, "<">>,
     <<<<"m", "a", "l", "t", ";">>, "U+2720">>,
     <<<<"m", "a", "p", ";">>, "U+21A6">>,
     <<<<"m", "p", ";">>, "U+2213">>,
     <<<<"m", "u", ";">>, "U+03BC">>,
     <<<<"m", "u", "m", "a", "p", ";">>, "U+22B8">>,
     <<<<"o", "g", "t", ";">>, "U+29C1">>,
     <<<<"o", "l", "t", ";">>, "U+29C0">>,
     <<<<"o", "u", "m", "l">>, "U+00F6">>,
     <<<<"o", "u", "m", "l", ";">>, "U+00F6">>,
     <<<<"p", "m", ";">>, "U+00B1">>,
     <<<<"q", "u", "o", "t">>, "\"">>,
     <<<<"q", "u", "o", "t", ";">>, "\"">>,
     <<<<"t", "a", "u", ";">>, "U+03C4">>,
     <<<<"t", "o", "p", ";">>, "U+22A4">>,
     <<<<"u", "m", "l">>, "U+00A8">>,
     <<<<"u", "m", "l", ";">>, "U+00A8">>,
     <<<<"u", "u", "m", "l">>, "U+00FC">>,
     <<<<"u", "u", "m", "l", ";">>, "U+00FC">>,
     <<<<"x", "m", "a", "p", ";">>, "U+27FC">>
    }

Html5Names == {e[1] : e \in Html5Table}

Html5(name) == (CHOOSE e \in Html5Table : e[1] = name)[2]

DecDigits == {"0", "1", "2", "3", "4", "5", "6", "7", "8", "9"}
HexDigits == DecDigits \cup {"a", "b", "c", "d", "e", "f",
                             "A", "B", "C", "D", "E", "F"}

DigitVal(c) ==
    CASE c = "0" -> 0 [] c = "1" -> 1 [] c = "2" -> 2 [] c = "3" -> 3
      [] c = "4" -> 4 [] c = "5" -> 5 [] c = "6" -> 6 [] c = "7" -> 7
      [] c = "8" -> 8 [] c = "9" -> 9
      [] c \in {"a", "A"} -> 10 [] c \in {"b", "B"} -> 11
      [] c \in {"c", "C"} -> 12 [] c \in {"d", "D"} -> 13
      [] c \in {"e", "E"} -> 14 [] c \in {"f", "F"} -> 15

RECURSIVE NumVal(_, _, _)
NumVal(digits, base, acc) ==
    IF digits = <<>> THEN acc
    ELSE NumVal(Tail(digits), base, acc * base + DigitVal(Head(digits)))

\* chr(num) for the code points of the model's characters; any other
\* code point is one character outside the model's alphabet
Chr(num) ==
    CASE num = 34 -> "\"" [] num = 35 -> "#" [] num = 38 -> "&"
      [] num = 39 -> "'" [] num = 59 -> ";" [] num = 60 -> "<"
      [] num = 62 -> ">" [] OTHER -> "U+other"

\* length of the longest prefix of s (from position k) inside the set ok
RECURSIVE RunLen(_, _, _, _)
RunLen(s, k, ok, max) ==
    IF k > Len(s) \/ max = 0 \/ s[k] \notin ok THEN 0
    ELSE 1 + RunLen(s, k + 1, ok, max - 1)

NameExcluded == {"\t", "\n", "\f", " ", "<", "&", "#", ";"}

\* the named branch of _replace_charref: the name itself, else its longest
\* prefix of length >= 2 that is an entity, else the text unchanged
RECURSIVE NamedPrefix(_, _)
NamedPrefix(s, x) ==
    IF x < 2 THEN <<"&">> \o s
    ELSE IF SubSeq(s, 1, x) \in Html5Names
         THEN <<Html5(SubSeq(s, 1, x))>> \o SubSeq(s, x + 1, Len(s))
         ELSE NamedPrefix(s, x - 1)

NamedCharref(s) ==
    IF s \in Html5Names THEN <<Html5(s)>> ELSE NamedPrefix(s, Len(s) - 1)

\* optional ";" after a match that ends before position k
Semi(s, k) == IF k <= Len(s) /\ s[k] = ";" THEN 1 ELSE 0

\* html.unescape: _charref.sub(_replace_charref, s), scanning from the left
RECURSIVE Unescape(_)
Unescape(s) ==
    IF s = <<>> THEN <<>>
    ELSE IF Head(s) # "&" THEN <<Head(s)>> \o Unescape(Tail(s))
    ELSE
      LET r == Tail(s)
          dec == IF r # <<>> /\ r[1] = "#"
                 THEN RunLen(r, 2, DecDigits, Len(r)) ELSE 0
          hex == IF Len(r) >= 2 /\ r[1] = "#" /\ r[2] \in {"x", "X"}
                 THEN RunLen(r, 3, HexDigits, Len(r)) ELSE 0
          nam == RunLen(r, 1, {c \in Range(r) : c \notin NameExcluded}, 32)
      IN  IF dec > 0
          THEN <<Chr(NumVal(SubSeq(r, 2, 1 + dec), 10, 0))>>
               \o Unescape(SubSeq(r, 2 + dec + Semi(r, 2 + dec), Len(r)))
          ELSE IF hex > 0
          THEN <<Chr(NumVal(SubSeq(r, 3, 2 + hex), 16, 0))>>
               \o Unescape(SubSeq(r, 3 + hex + Semi(r, 3 + hex), Len(r)))
          ELSE IF nam > 0
          THEN NamedCharref(SubSeq(r, 1, nam + Semi(r, nam + 1)))
               \o Unescape(SubSeq(r, nam + 1 + Semi(r, nam + 1), Len(r)))
          ELSE <<"&">> \o Unescape(r)

(***************************************************************************)
(* render_markdown                                                         *)
(***************************************************************************)
PRE_OPEN == "<pre style='white-space: pre-wrap'>"
PRE_CLOSE == "</pre>"

\* _markdown.markdown(text, ...): the external engine.  Python-Markdown
\* copies raw HTML of the document into its output; the model keeps the
\* characters of the text between two atoms.
MarkdownEngine(t) == <<"<markdown>">> \o t \o <<"</markdown>">>

render_markdown(md, t) ==
    IF md THEN MarkdownEngine(t)
    ELSE <<PRE_OPEN>> \o Escape(t) \o <<PRE_CLOSE>>

(***************************************************************************)
(* File names                                                              *)
(***************************************************************************)
DOT_MD == <<".", "m", "d">>
DOT_HTML == <<".", "h", "t", "m", "l">>
INDEX_HTML == <<"i", "n", "d", "e", "x">> \o DOT_HTML

\* the characters of the file names of the model, in code point order
CodeOrder == <<".", "<", "d", "e", "h", "i", "j", "k", "l", "m", "n", "p",
               "t", "x">>

Ord(c) == CHOOSE k \in 1..Len(CodeOrder) : CodeOrder[k] = c

\* a < b for two strings (the order sorted() puts two paths of one
\* directory in)
RECURSIVE Less(_, _)
Less(a, b) ==
    IF b = <<>> THEN FALSE
    ELSE IF a = <<>> THEN TRUE
    ELSE IF Head(a) = Head(b) THEN Less(Tail(a), Tail(b))
    ELSE Ord(Head(a)) < Ord(Head(b))

RECURSIVE Sorted(_)
Sorted(S) ==
    IF S = {} THEN <<>>
    ELSE LET m == CHOOSE x \in S : \A y \in S \ {x} : Less(x, y)
         IN  <<m>> \o Sorted(S \ {m})

\* sorted(p for p in directory.glob("*.md") if p.is_file())
find_markdown_files(dir) ==
    Sorted({n \in DOMAIN dir :
              Len(n) >= 3 /\ EndsWith(n, DOT_MD) /\ dir[n].kind = "file"})

\* position of the last occurrence of c in s, 0 if none
RECURSIVE RFind(_, _, _)
RFind(s, c, k) ==
    IF k = 0 THEN 0 ELSE IF s[k] = c THEN k ELSE RFind(s, c, k - 1)

\* PurePath.stem: the name up to its last dot, if that dot is neither the
\* first nor the last character
stem(name) ==
    LET i == RFind(name, ".", Len(name))
    IN  IF 1 < i /\ i < Len(name) THEN SubSeq(name, 1, i - 1) ELSE name

\* src.stem + ".html"
OutName(name) == stem(name) \o DOT_HTML

(***************************************************************************)
(* HTML_TEMPLATE, convert_one_file, build_index_page                       *)
(***************************************************************************)
TPL_HEAD == "<!DOCTYPE html>...<title>"
TPL_STYLE == "</title><style>...</style></head><body><header><h1>"
TPL_META == "</h1><div class=\"file-meta\">from: "
TPL_MAIN == "</div></header><main>"
TPL_END == "</main></body></html>"

\* HTML_TEMPLATE.format(title=..., source_name=..., content=...)
Page(title, source_name, content) ==
    <<TPL_HEAD>> \o title \o <<TPL_STYLE>> \o title \o <<TPL_META>>
    \o source_name \o <<TPL_MAIN>> \o content \o <<TPL_END>>

\* a faulty converter: the title goes into the template unescaped
ConvertPageRawTitle(md, name, t) ==
    Page(guess_title(t, stem(name)), Escape(name), render_markdown(md, t))

\* convert_one_file up to the write: the page for the file name with text t
ConvertPage(md, name, t) ==
    Page(Escape(guess_title(t, stem(name))), Escape(name),
         render_markdown(md, t))

LI_OPEN == "<li><a href=\""
LI_TITLE == "\"><div class='title'>"
LI_NAME == "</div><div class='file-name'>"
LI_CLOSE == "</div></a></li>"
SITE_TITLE == "tennis self-study guide"
INDEX_SOURCE == "index"

\* one element of parts per (src_name, title, href), each followed by the
\* "\n" of the join
RECURSIVE IndexItems(_, _)
IndexItems(dir, files) ==
    IF files = <<>> THEN <<>>
    ELSE LET src == Head(files)
             title == guess_title(dir[src].text, stem(src))
             href == OutName(src)
         IN  <<LI_OPEN>> \o Escape(href) \o <<LI_TITLE>> \o Escape(title)
             \o <<LI_NAME>> \o Escape(src) \o <<LI_CLOSE, "\n">>
             \o IndexItems(dir, Tail(files))

\* build_index_page up to the write
IndexPage(dir, files) ==
    Page(Escape(<<SITE_TITLE>>), Escape(<<INDEX_SOURCE>>),
         <<"<section>", "\n", "<h2>TOC</h2>", "\n", "<ul class=\"toc\">", "\n">>
         \o IndexItems(dir, files) \o <<"</ul>", "\n", "</section>">>)

\* a faulty write: the file is opened for appending
WriteTextAppend(old, new) == old \o new

\* Path.write_text: the file holds the new content, whatever it held
WriteText(old, new) == new

EmptyDir == [n \in {} |-> <<>>]

Content(dir, f) == IF f \in DOMAIN dir THEN dir[f] ELSE <<>>

WriteFile(dir, f, new) == (f :> WriteText(Content(dir, f), new)) @@ dir

\* a failed write_text either could not open the file or left it empty
Truncate(dir, f) == (f :> <<>>) @@ dir

(***************************************************************************)
(* main                                                                    *)
(***************************************************************************)
NoFailure == [phase |-> "none", op |-> "none", doc |-> <<>>]

\* a faulty check: an empty list does not end the run
NoFilesNever(files) == FALSE

\* if not md_files: ... return 0
NoFiles(files) == files = <<>>

\* a faulty loop: the list is walked from its end
LoopItemReversed(files, i) == files[Len(files) + 1 - i]

\* for path in md_files
LoopItem(files, i) == files[i]

\* a driver that isolates failures: a failing file is skipped and the loop goes on
OnConvertFailureSkip(i, n) == IF i = n THEN "index" ELSE "convert"

\* no try/except around convert_one_file: the exception leaves main
OnConvertFailure(i, n) == "exit"

\* main up to the loop: the advisory, the discovery, the empty case
Discover ==
    /\ pc = "start"
    /\ md_files' = find_markdown_files(source)
    /\ idx' = 1
    /\ log' = <<>>
    /\ failure' = NoFailure
    /\ source0' = source
    /\ docs0' = docs
    /\ docsExists0' = docsExists
    /\ IF NoFiles(md_files')
       THEN pc' = "exit" /\ status' = 0
       ELSE /\ pc' = IF Len(md_files') = 0 THEN "index" ELSE "convert"
            /\ status' = "none"
    /\ UNCHANGED <<markdown, source, docsExists, docs, runs, edits, prev,
                   kept, text, dflt, out>>

ConvertOutcomes == {"ok", "read_fail", "mkdir_fail", "write_fail", "write_trunc"}

\* one iteration of the loop of main: convert_one_file(path, OUTPUT_DIR)
Convert ==
    /\ pc = "convert"
    /\ \E outcome \in ConvertOutcomes :
         LET name == LoopItem(md_files, idx)
             n == Len(md_files)
             page == ConvertPage(markdown, name, source[name].text)
             fail(op) ==
                 /\ failure' = IF failure = NoFailure
                               THEN [phase |-> "convert", op |-> op, doc |-> name]
                               ELSE failure
                 /\ pc' = OnConvertFailure(idx, n)
                 /\ status' = IF pc' = "exit" THEN 1 ELSE status
                 /\ idx' = idx + 1
                 /\ log' = log
         IN  CASE outcome = "ok" ->
                    /\ docsExists' = TRUE
                    /\ docs' = WriteFile(docs, OutName(name), page)
                    /\ log' = Append(log, [op |-> "page", doc |-> name,
                                           file |-> OutName(name)])
                    /\ idx' = idx + 1
                    /\ pc' = IF idx = n THEN "index" ELSE "convert"
                    /\ UNCHANGED <<failure, status>>
               [] outcome = "read_fail" ->
                    /\ fail("read")
                    /\ UNCHANGED <<docsExists, docs>>
               [] outcome = "mkdir_fail" ->
                    /\ ~docsExists
                    /\ fail("mkdir")
                    /\ UNCHANGED <<docsExists, docs>>
               [] outcome = "write_fail" ->
                    /\ fail("write")
                    /\ docsExists' = TRUE
                    /\ docs' = docs
               [] outcome = "write_trunc" ->
                    /\ fail("write")
                    /\ docsExists' = TRUE
                    /\ docs' = Truncate(docs, OutName(name))
    /\ UNCHANGED <<markdown, source, md_files, runs, edits, source0, docs0,
                   docsExists0, prev, kept, text, dflt, out>>

IndexOutcomes == {"ok", "read_fail", "write_fail", "write_trunc"}

\* the rest of main: build_index_page(md_files, OUTPUT_DIR), return 0
BuildIndex ==
    /\ pc = "index"
    /\ \E outcome \in IndexOutcomes :
         LET fail(op, doc) ==
                 /\ failure' = IF failure = NoFailure
                               THEN [phase |-> "index", op |-> op, doc |-> doc]
                               ELSE failure
                 /\ status' = 1
                 /\ log' = log
         IN  CASE outcome = "ok" ->
                    /\ docsExists' = TRUE
                    /\ docs' = WriteFile(docs, INDEX_HTML,
                                         IndexPage(source, md_files))
                    /\ log' = Append(log, [op |-> "index", doc |-> md_files,
                                           file |-> INDEX_HTML])
                    /\ status' = 0
                    /\ UNCHANGED failure
               [] outcome = "read_fail" ->
                    /\ \E k \in 1..Len(md_files) : fail("read", md_files[k])
                    /\ UNCHANGED <<docsExists, docs>>
               [] outcome = "write_fail" ->
                    /\ fail("write", <<>>)
                    /\ docsExists' = TRUE
                    /\ docs' = docs
               [] outcome = "write_trunc" ->
                    /\ fail("write", <<>>)
                    /\ docsExists' = TRUE
                    /\ docs' = Truncate(docs, INDEX_HTML)
    /\ pc' = "exit"
    /\ UNCHANGED <<markdown, source, md_files, idx, runs, edits, source0,
                   docs0, docsExists0, prev, kept, text, dflt, out>>

(***************************************************************************)
(* The environment: the script is run again, documents come and go         *)
(***************************************************************************)
MD_INDEX == <<"i", "n", "d", "e", "x">> \o DOT_MD
MD_LT == <<"<">> \o DOT_MD
MD_J == <<"j">> \o DOT_MD
TXT_N == <<"n", ".", "t", "x", "t">>
DIR_D == <<"d">> \o DOT_MD

MdNames == {MD_LT, MD_INDEX, MD_J}

TEXT_HEADING == <<"#", " ", "<">>
TEXT_PLAIN == <<"b", ">">>

Texts == {TEXT_HEADING, TEXT_PLAIN}

File(t) == [kind |-> "file", text |-> t]

\* what is in SOURCE_DIR besides Markdown documents
OtherEntries ==
    (TXT_N :> File(TEXT_HEADING)) @@ (DIR_D :> [kind |-> "dir", text |-> <<>>])

SourceDirs ==
    {d @@ OtherEntries :
       d \in UNION {[S -> {File(t) : t \in Texts}] : S \in SUBSET MdNames}}

OLD == <<"o", "l", "d">>
KEEP_TXT == <<"k", ".", "t", "x", "t">>

OldDocs == (KEEP_TXT :> OLD) @@ (INDEX_HTML :> OLD) @@ (OutName(MD_J) :> OLD)

NoPrev == [status |-> "none", source |-> EmptyDir, docs |-> EmptyDir,
           md_files |-> <<>>]

Init ==
    /\ markdown \in BOOLEAN
    /\ source \in SourceDirs
    /\ \/ docsExists = FALSE /\ docs = EmptyDir
       \/ docsExists = TRUE /\ docs = OldDocs
    /\ pc = "start"
    /\ md_files = <<>>
    /\ idx = 1
    /\ status = "none"
    /\ failure = NoFailure
    /\ log = <<>>
    /\ runs = 1
    /\ edits = 0
    /\ source0 = source
    /\ docs0 = docs
    /\ docsExists0 = docsExists
    /\ prev = NoPrev
    /\ kept = EmptyDir
    /\ text = <<>>
    /\ dflt = <<>>
    /\ out = <<>>

\* the script is started once more
Rerun ==
    /\ pc = "exit"
    /\ runs < MaxRuns
    /\ pc' = "start"
    /\ runs' = runs + 1
    /\ prev' = [status |-> status, source |-> source0, docs |-> docs,
                md_files |-> md_files]
    /\ UNCHANGED <<markdown, source, docsExists, docs, md_files, idx, status,
                   failure, log, edits, source0, docs0, docsExists0, kept,
                   text, dflt, out>>

Restrict(f, S) == [x \in S |-> f[x]]

\* between two runs a document is removed from SOURCE_DIR; kept remembers
\* its <stem>.html if the run before converted it and succeeded
RemoveDoc ==
    /\ pc = "start"
    /\ runs > 1
    /\ edits < MaxEdits
    /\ \E n \in DOMAIN source \cap MdNames :
         /\ source' = Restrict(source, DOMAIN source \ {n})
         /\ kept' = IF status = 0 /\ n \in Range(md_files)
                    THEN (OutName(n) :> docs[OutName(n)]) @@ kept
                    ELSE kept
    /\ edits' = edits + 1
    /\ UNCHANGED <<markdown, docsExists, docs, pc, md_files, idx, status,
                   failure, log, runs, source0, docs0, docsExists0, prev,
                   text, dflt, out>>

\* between two runs a document is added to SOURCE_DIR
AddDoc ==
    /\ pc = "start"
    /\ runs > 1
    /\ edits < MaxEdits
    /\ \E n \in MdNames \ DOMAIN source, t \in Texts :
         /\ source' = (n :> File(t)) @@ source
         /\ kept' = Restrict(kept, DOMAIN kept \ {OutName(n)})
    /\ edits' = edits + 1
    /\ UNCHANGED <<markdown, docsExists, docs, pc, md_files, idx, status,
                   failure, log, runs, source0, docs0, docsExists0, prev,
                   text, dflt, out>>

Next == Discover \/ Convert \/ BuildIndex \/ Rerun \/ RemoveDoc \/ AddDoc

Spec == Init /\ [][Next]_vars

(***************************************************************************)
(* guess_title and render_markdown on their own                            *)
(***************************************************************************)
TitleAlphabet == {"#", " ", "\n", "a"}
EscAlphabet == {"&", "<", ">", "\"", "'", "a", "m", "p", ";"}
EscSamples == {AMP, LT, APOS, AMP \o <<"l", "t", ";">>, <<"&", "#", "3", "8", ";">>}

FsIdle ==
    /\ markdown = FALSE
    /\ source = OtherEntries
    /\ docsExists = FALSE
    /\ docs = EmptyDir
    /\ md_files = <<>>
    /\ idx = 1
    /\ status = "none"
    /\ failure = NoFailure
    /\ log = <<>>
    /\ runs = 1
    /\ edits = 0
    /\ source0 = source
    /\ docs0 = docs
    /\ docsExists0 = docsExists
    /\ prev = NoPrev
    /\ kept = EmptyDir

InitTitle ==
    /\ FsIdle
    /\ pc = "title_in"
    /\ text \in SeqsUpTo(TitleAlphabet, MaxTitleLen)
    /\ dflt = <<"d">>
    /\ out = <<>>

GuessTitle ==
    /\ pc = "title_in"
    /\ out' = guess_title(text, dflt)
    /\ pc' = "title_out"
    /\ UNCHANGED <<text, dflt>>
    /\ UNCHANGED fsVars

SpecTitle == InitTitle /\ [][GuessTitle]_vars

InitEscape ==
    /\ FsIdle
    /\ pc = "render_in"
    /\ text \in SeqsUpTo(EscAlphabet, MaxEscLen) \cup EscSamples
    /\ dflt = <<>>
    /\ out = <<>>

RenderFallback ==
    /\ pc = "render_in"
    /\ out' = render_markdown(markdown, text)
    /\ pc' = "render_out"
    /\ UNCHANGED <<text, dflt>>
    /\ UNCHANGED fsVars

SpecEscape == InitEscape /\ [][RenderFallback]_vars

(***************************************************************************)
(* Reading pages back                                                      *)
(***************************************************************************)
\* the part of page between the first atom a and the next atom b
Seg(page, a, b) ==
    LET i == FindFrom(page, a, 1)
        j == FindFrom(page, b, i + 1)
    IN  SubSeq(page, i + 1, j - 1)

\* the href attributes of the entries of an index page, in page order
RECURSIVE Hrefs(_)
Hrefs(page) ==
    LET i == FindFrom(page, LI_OPEN, 1)
    IN  IF i = 0 THEN <<>>
        ELSE <<Seg(page, LI_OPEN, LI_TITLE)>>
             \o Hrefs(SubSeq(page, i + 1, Len(page)))

Angle == {"<", ">"}

Succeeded == pc = "exit" /\ status = 0

\* the Markdown files of a directory, whatever find_markdown_files returns
MdFilesOf(dir) ==
    {n \in DOMAIN dir : EndsWith(n, DOT_MD) /\ dir[n].kind = "file"}

\* the page convert_one_file writes for the k-th discovered document
PageOf(k) == ConvertPage(markdown, md_files[k], source0[md_files[k]].text)

LogFiles == {log[k].file : k \in 1..Len(log)}

(***************************************************************************)
(* C1                                                                      *)
(***************************************************************************)
\* C1: after a successful run over N discovered documents the run has
\* written N + 1 distinct files, and <stem>.html of every discovered
\* document holds that document's own converted page.
C1_OnePagePerDocument ==
    (Succeeded /\ md_files # <<>>) =>
        /\ Cardinality(LogFiles) = Len(md_files) + 1
        /\ \A k \in 1..Len(md_files) :
             /\ OutName(md_files[k]) \in DOMAIN docs
             /\ docs[OutName(md_files[k])] = PageOf(k)

(***************************************************************************)
(* C2                                                                      *)
(***************************************************************************)
\* the title as the claim describes it: the first level-1 heading line with
\* only the marker and the surrounding whitespace removed
RECURSIVE ClaimedTitleLines(_, _)
ClaimedTitleLines(lines, default) ==
    IF lines = <<>> THEN default
    ELSE LET stripped == Strip(Head(lines))
         IN  IF StartsWith(stripped, <<"#", " ">>)
             THEN (IF HeadingTextMarkerOnly(stripped) # <<>>
                   THEN HeadingTextMarkerOnly(stripped) ELSE default)
             ELSE ClaimedTitleLines(Tail(lines), default)

\* C2: guess_title returns the text of the first level-1 heading line with
\* only the heading marker and the surrounding whitespace removed, and the
\* default if that text is empty or there is no such line.
C2_TitleIsHeadingText ==
    pc = "title_out" => out = ClaimedTitleLines(splitlines(text), dflt)

(***************************************************************************)
(* C3                                                                      *)
(***************************************************************************)
\* C3: after a successful run the index page has one entry per discovered
\* document, in file-name order, and the link of each entry leads to the
\* page of that same document.
C3_IndexLinksReachPages ==
    (Succeeded /\ md_files # <<>>) =>
        LET hrefs == Hrefs(docs[INDEX_HTML])
        IN  /\ Len(hrefs) = Len(md_files)
            /\ Range(md_files) = MdFilesOf(source0)
            /\ \A k \in 1..Len(md_files) - 1 : Less(md_files[k], md_files[k + 1])
            /\ \A k \in 1..Len(md_files) :
                 /\ Unescape(hrefs[k]) = OutName(md_files[k])
                 /\ docs[Unescape(hrefs[k])] = PageOf(k)

(***************************************************************************)
(* C4                                                                      *)
(***************************************************************************)
UnchangedRerun ==
    /\ Succeeded
    /\ runs > 1
    /\ prev.status = 0
    /\ prev.source = source0

\* C4: a successful run that follows a successful run on the same input
\* discovers the same documents and leaves the output directory with
\* exactly the contents the first run left.
C4_Idempotent ==
    UnchangedRerun =>
        /\ docs = prev.docs
        /\ md_files = prev.md_files
        /\ Range(md_files) = MdFilesOf(source0)

C4_Witness == UnchangedRerun /\ Len(md_files) >= 2 /\ Len(log) = Len(md_files) + 1

(***************************************************************************)
(* C5                                                                      *)
(***************************************************************************)
\* C5: with no Markdown file in the source directory, main ends with
\* status 0, writes nothing, does not create the output directory and
\* leaves the file system as it was.
C5_EmptyInputIsNoOp ==
    (pc \in {"convert", "index", "exit"} /\ MdFilesOf(source0) = {}) =>
        /\ pc = "exit"
        /\ status = 0
        /\ log = <<>>
        /\ docs = docs0
        /\ docsExists = docsExists0
        /\ source = source0

C5_Witness ==
    /\ pc = "exit"
    /\ MdFilesOf(source0) = {}
    /\ runs = 1
    /\ ~docsExists
    /\ DIR_D \in DOMAIN source0

(***************************************************************************)
(* C6                                                                      *)
(***************************************************************************)
DocFailed == pc = "exit" /\ failure # NoFailure /\ failure.doc # <<>>

FailPos == CHOOSE k \in 1..Len(md_files) : md_files[k] = failure.doc

\* the first k documents have their pages written, in order
PagesWritten(k) ==
    /\ Len(log) >= k
    /\ \A j \in 1..k :
         /\ log[j] = [op |-> "page", doc |-> md_files[j],
                      file |-> OutName(md_files[j])]
         /\ docs[OutName(md_files[j])] = PageOf(j)

NoIndexWritten == \A j \in 1..Len(log) : log[j].op # "index"

\* C6 as stated: whenever a read or write fails for a document, the run
\* ends with status 1, the pages of the documents before it are written,
\* none is written for it or for a later document, and build_index_page
\* has not written the index page.
C6_AbortAsStated ==
    DocFailed =>
        /\ status = 1
        /\ PagesWritten(FailPos - 1)
        /\ \A j \in 1..Len(log) :
             log[j].op = "page" =>
               \A k \in FailPos..Len(md_files) : log[j].doc # md_files[k]
        /\ NoIndexWritten

\* the files a run may have touched when it has handled the first k
\* documents
TouchedUpTo(k) == {OutName(md_files[j]) : j \in 1..k}

\* C6 amended: a failure inside convert_one_file aborts the run with the
\* pages of exactly the earlier documents written; a failure of the re-read
\* inside build_index_page aborts it with all pages written; in both cases
\* the status is 1, build_index_page writes nothing, and every file that is
\* not <stem>.html of a document handled so far is as the run found it.
C6_Abort ==
    DocFailed =>
        LET k == IF failure.phase = "convert" THEN FailPos
                 ELSE Len(md_files) + 1
        IN  /\ status = 1
            /\ NoIndexWritten
            /\ Len(log) = k - 1
            /\ PagesWritten(k - 1)
            /\ failure.phase = "index" => Len(log) = Len(md_files)
            /\ \A f \in DOMAIN docs \ TouchedUpTo(IF k > Len(md_files)
                                                  THEN Len(md_files) ELSE k) :
                 f \in DOMAIN docs0 /\ docs[f] = docs0[f]

C6_Witness ==
    /\ DocFailed
    /\ failure.phase = "convert"
    /\ FailPos = 2
    /\ Len(md_files) = 3
    /\ docs0 = OldDocs

C6_WitnessIndexPhase ==
    DocFailed /\ failure.phase = "index" /\ Len(md_files) >= 2

(***************************************************************************)
(* C7                                                                      *)
(***************************************************************************)
\* C7: on the fallback path render_markdown(t) is one preformatted block
\* whose content, un-escaped, is t.
C7_RoundTrip ==
    pc = "render_out" =>
        /\ Len(out) >= 2
        /\ out[1] = PRE_OPEN
        /\ out[Len(out)] = PRE_CLOSE
        /\ \A k \in 2..Len(out) - 1 : out[k] \notin {PRE_OPEN, PRE_CLOSE}
        /\ Unescape(SubSeq(out, 2, Len(out) - 1)) = text

C7_Witness == pc = "render_out" /\ text = AMP /\ out # <<PRE_OPEN>> \o text \o <<PRE_CLOSE>>

(***************************************************************************)
(* C8                                                                      *)
(***************************************************************************)
\* the last write of the run to the file of log entry k
LastWriter(k) == \A j \in k + 1..Len(log) : log[j].file # log[k].file

\* C8: in every page of the run the title and the attribution are escaped
\* and the body is the renderer's output as it is; an index page holds no
\* raw angle bracket, and on the fallback path no page does.
C8_Escaped ==
    \A k \in 1..Len(log) :
      (LastWriter(k) /\ docs[log[k].file] # <<>>) =>
        LET page == docs[log[k].file]
            name == log[k].doc
        IN  /\ (~markdown \/ log[k].op = "index") =>
                  \A i \in 1..Len(page) : page[i] \notin Angle
            /\ log[k].op = "page" =>
                 LET t == source0[name].text
                     title == Seg(page, TPL_HEAD, TPL_STYLE)
                     attr == Seg(page, TPL_META, TPL_MAIN)
                 IN  /\ Range(title) \cap Angle = {}
                     /\ Unescape(title) = guess_title(t, stem(name))
                     /\ Seg(page, TPL_STYLE, TPL_META) = title
                     /\ Range(attr) \cap Angle = {}
                     /\ Unescape(attr) = name
                     /\ Seg(page, TPL_MAIN, TPL_END) = render_markdown(markdown, t)

C8_Witness ==
    /\ ~markdown
    /\ Succeeded
    /\ \E k \in 1..Len(log) :
         /\ log[k] = [op |-> "page", doc |-> MD_LT, file |-> OutName(MD_LT)]
         /\ source0[MD_LT].text = TEXT_HEADING
         /\ LT = Seg(docs[OutName(MD_LT)], TPL_HEAD, TPL_STYLE)

(***************************************************************************)
(* C9                                                                      *)
(***************************************************************************)
\* C9: the pages are written one at a time in file-name order, the index
\* builder runs once, after the page of every discovered document, over the
\* whole discovered list, and nothing is written after the index page.
C9_Order ==
    pc \in {"convert", "index", "exit"} =>
        LET n == Len(md_files)
        IN  /\ Range(md_files) = MdFilesOf(source0)
            /\ \A k \in 1..n - 1 : Less(md_files[k], md_files[k + 1])
            /\ Len(log) <= n + 1
            /\ \A k \in 1..Len(log) :
                 IF k <= n
                 THEN log[k] = [op |-> "page", doc |-> md_files[k],
                                file |-> OutName(md_files[k])]
                 ELSE log[k] = [op |-> "index", doc |-> md_files,
                                file |-> INDEX_HTML]
            /\ pc = "index" => Len(log) = n
            /\ (Succeeded /\ n > 0) => Len(log) = n + 1

C9_Witness == Succeeded /\ Len(md_files) = 3 /\ Len(log) = 4

(***************************************************************************)
(* C10                                                                     *)
(***************************************************************************)
\* C10: a run leaves the sources and every file of the output directory
\* other than <stem>.html of its documents and index.html as they were, and
\* the page of a document that was removed stays as it was at the removal.
C10_Frame ==
    /\ pc \in {"convert", "index", "exit"} =>
         /\ source = source0
         /\ DOMAIN docs0 \subseteq DOMAIN docs
         /\ \A f \in DOMAIN docs \ (TouchedUpTo(Len(md_files)) \cup {INDEX_HTML}) :
              f \in DOMAIN docs0 /\ docs[f] = docs0[f]
    /\ \A f \in DOMAIN kept : f \in DOMAIN docs /\ docs[f] = kept[f]

====
